---------------------------- MODULE Spec2Model ----------------------------
(***************************************************************************)
(* A model of the bip39 package: the bit-string codec, the word lookup,    *)
(* the entropy generator, the mnemonic codec and the seed deriver.         *)
(*                                                                         *)
(* Representation.  A Go string is a sequence of byte values (ASCII        *)
(* codes), a []byte is a record [nil, elems] (a nil slice and an empty     *)
(* slice differ), an error is a string naming the error value ("nil" for   *)
(* no error), a *Mnemonic is a record [nil, Words].                        *)
(***************************************************************************)
EXTENDS Integers, Sequences, FiniteSets, TLC

(***************************************************************************)
(* Bounds of the model                                                     *)
(***************************************************************************)
\* byte patterns 0..MaxPattern of the entropy inputs and of the random source
MaxPattern == 1
\* a substituted last word has one of the MaxLow lowest values of its
\* trailing checksum bits
MaxLow == 16
\* byte slices given to bytesToBinaryString have 0..MaxBytes bytes
MaxBytes == 2
\* strings given to binaryStringToBytes have 0..MaxStrLen characters
MaxStrLen == 17
\* entropy inputs have 0..MaxEntropyLen bytes
MaxEntropyLen == 33
\* GenerateEntropy is called with 0..MaxBitLen
MaxBitLen == 257
\* MnemonicFromWordsNum is called with 0..MaxWordsNum
MaxWordsNum == 25
\* a failing random source has filled 0..MaxFill bytes
MaxFill == 1
\* mnemonic strings given to MnemonicFromString have 1..MaxTokens tokens
MaxTokens == 25
\* passphrases have 0..MaxPass characters
MaxPass == 1
\* callers 1..NumCallers run at the same time
NumCallers == 2

(***************************************************************************)
(* Characters                                                              *)
(***************************************************************************)
Ch0 == 48
Ch1 == 49
ChSpace == 32
ChPlus == 43
ChMinus == 45
ChLowerA == 97
ChLowerS == 115

(***************************************************************************)
(* Go values                                                               *)
(***************************************************************************)
NilSlice == [nil |-> TRUE, elems |-> <<>>]

MkSlice(s) == [nil |-> FALSE, elems |-> s]

NilMnemonic == [nil |-> TRUE, Words |-> <<>>]

MkMnemonic(w) == [nil |-> FALSE, Words |-> w]

ErrNil == "nil"
ErrWordsNum == "ErrWordsNum"
ErrInvalidWord == "ErrInvalidWord"
ErrChecksum == "ErrChecksum"
ErrBinaryString == "ErrBinaryString"
ErrEntropyBitLen == "ErrEntropyBitLen"
\* strconv's *NumError values
ErrSyntax == "strconv.ErrSyntax"
ErrRange == "strconv.ErrRange"
\* the error of a failing crypto/rand source
ErrRand == "rand.Read error"

(***************************************************************************)
(* Program constants                                                       *)
(***************************************************************************)
wordBitLen == 11
seedPbkdf2KeyLen == 64
seedPbkdf2Round == 2048
\* "mnemonic"
seedSaltMod == <<109, 110, 101, 109, 111, 110, 105, 99>>

wordsNumMap == {12, 15, 18, 21, 24}

entropyBitLenMap == {128, 160, 192, 224, 256}

(***************************************************************************)
(* Library functions the package calls                                     *)
(***************************************************************************)
RECURSIVE BinDigits(_)
\* the binary digits of v > 0 without leading zeros; none for v = 0
BinDigits(v) ==
  IF v = 0 THEN <<>> ELSE Append(BinDigits(v \div 2), Ch0 + (v % 2))

\* fmt.Sprintf("%.<prec>b", v) for v >= 0: at least prec digits, zero padded
SprintfBin(prec, v) ==
  LET d == BinDigits(v)
  IN  IF Len(d) >= prec THEN d
      ELSE [i \in 1..(prec - Len(d)) |-> Ch0] \o d

RECURSIVE ParseUintFrom(_, _, _, _)
\* strconv.ParseUint's digit loop in the given base, from position i with
\* the value n read so far: [val, err]
ParseUintFrom(s, base, i, n) ==
  IF i > Len(s) THEN [val |-> n, err |-> ErrNil]
  ELSE LET c == s[i]
           d == IF c >= Ch0 /\ c <= Ch0 + 9 THEN c - Ch0
                ELSE IF c >= ChLowerA /\ c <= ChLowerA + 25 THEN c - ChLowerA + 10
                ELSE IF c >= 65 /\ c <= 90 THEN c - 65 + 10
                ELSE -1
       IN  IF d < 0 \/ d >= base THEN [val |-> 0, err |-> ErrSyntax]
           ELSE ParseUintFrom(s, base, i + 1, n * base + d)

\* strconv.ParseUint(s, base, bitSize), base given explicitly (no prefix,
\* no underscores)
ParseUint(s, base, bitSize) ==
  IF Len(s) = 0 THEN [val |-> 0, err |-> ErrSyntax]
  ELSE LET r == ParseUintFrom(s, base, 1, 0)
           maxVal == 2^bitSize - 1
       IN  IF r.err # ErrNil THEN r
           ELSE IF r.val > maxVal THEN [val |-> maxVal, err |-> ErrRange]
           ELSE r

\* strconv.ParseInt(s, base, bitSize): an optional sign, then ParseUint
ParseInt(s, base, bitSize) ==
  IF Len(s) = 0 THEN [val |-> 0, err |-> ErrSyntax]
  ELSE LET neg == s[1] = ChMinus
           rest == IF s[1] = ChPlus \/ s[1] = ChMinus THEN Tail(s) ELSE s
           u == ParseUint(rest, base, bitSize)
           cutoff == 2^(bitSize - 1)
       IN  IF u.err # ErrNil /\ u.err # ErrRange THEN [val |-> 0, err |-> u.err]
           ELSE IF ~neg /\ u.val >= cutoff THEN [val |-> cutoff - 1, err |-> ErrRange]
           ELSE IF neg /\ u.val > cutoff THEN [val |-> -cutoff, err |-> ErrRange]
           ELSE [val |-> IF neg THEN -u.val ELSE u.val, err |-> ErrNil]

RECURSIVE StrLessFrom(_, _, _)
StrLessFrom(a, b, i) ==
  IF i > Len(a) THEN i <= Len(b)
  ELSE IF i > Len(b) THEN FALSE
  ELSE IF a[i] # b[i] THEN a[i] < b[i]
  ELSE StrLessFrom(a, b, i + 1)

\* Go's a < b on strings: bytewise lexicographic order
StrLess(a, b) == StrLessFrom(a, b, 1)

RECURSIVE SplitFrom(_, _, _)
\* the tokens of s from position i on: up to the first separator, then the
\* tokens after it
SplitFrom(s, sep, i) ==
  LET seps == {j \in i..Len(s) : s[j] = sep}
  IN  IF seps = {} THEN <<SubSeq(s, i, Len(s))>>
      ELSE LET j == CHOOSE m \in seps : \A k \in seps : m <= k
           IN  <<SubSeq(s, i, j - 1)>> \o SplitFrom(s, sep, j + 1)

\* strings.Split(s, sep) for a one-character separator: one token more than
\* there are separators, empty tokens kept
StringsSplit(s, sep) == SplitFrom(s, sep, 1)

RECURSIVE JoinFrom(_, _, _)
JoinFrom(elems, sep, i) ==
  IF i > Len(elems) THEN <<>>
  ELSE IF i = Len(elems) THEN elems[i]
  ELSE elems[i] \o <<sep>> \o JoinFrom(elems, sep, i + 1)

\* strings.Join(elems, sep) for a one-character separator
StringsJoin(elems, sep) == JoinFrom(elems, sep, 1)

\* slice[i] of a Go slice or string, whose first index is 0
At(slice, i) == slice[i + 1]

\* slice[lo:hi] of a Go slice or string
Sub(slice, lo, hi) == SubSeq(slice, lo + 1, hi)

RECURSIVE SortSearch(_, _, _, _)
\* sort.Search's loop on [i, j): the least index h with slice[h] >= elem
SortSearch(slice, elem, i, j) ==
  IF i >= j THEN i
  ELSE LET h == (i + j) \div 2
       IN  IF StrLess(At(slice, h), elem) THEN SortSearch(slice, elem, h + 1, j)
           ELSE SortSearch(slice, elem, i, h)

\* sort.SearchStrings(slice, elem)
SortSearchStrings(slice, elem) == SortSearch(slice, elem, 0, Len(slice))

sha256Size == 32

RECURSIVE HashSum(_, _, _)
\* a position-weighted sum of data[lo..hi], by halves
HashSum(data, lo, hi) ==
  IF lo > hi THEN 0
  ELSE IF lo = hi THEN ((data[lo] + 1) * (1 + ((lo * lo) % 251))) % 65521
  ELSE LET mid == (lo + hi) \div 2
       IN  (HashSum(data, lo, mid) + HashSum(data, mid + 1, hi)) % 65521

\* sha256.Sum256(data).  The digest function is outside the package; the
\* model puts a fixed function of the data in its place, of which only
\* that it is a function of the data and yields 32 bytes is relied on.
Sum256(data) ==
  LET h == HashSum(data, 1, Len(data)) + 7 * Len(data)
  IN  [j \in 1..sha256Size |-> ((h * (2 * j - 1)) \div 5 + 11 * j) % 256]

\* pbkdf2.Key(password, salt, iter, keyLen, sha512.New).  As for Sum256, a
\* fixed function of its arguments stands for the key derivation.
Pbkdf2Key(password, salt, iter, keyLen) ==
  LET h == HashSum(password, 1, Len(password)) * 3
             + HashSum(salt, 1, Len(salt)) * 5 + iter
  IN  [j \in 1..keyLen |-> ((h * (2 * j + 1)) \div 3 + 13 * j) % 256]

(***************************************************************************)
(* The words list                                                          *)
(***************************************************************************)
wordsListLen == 2048

\* The list itself is not among the package's files shown here: it is a
\* sorted array of 2048 distinct non-empty words.  Word 2k is three letters
\* spelling k in base 16, word 2k+1 is word 2k followed by "s", so that
\* words are prefixes of other words, as in the English list.
wordsListEn ==
  [n \in 1..wordsListLen |->
     LET i == n - 1
         k == i \div 2
         stem == <<ChLowerA + (k \div 256), ChLowerA + ((k \div 16) % 16),
                   ChLowerA + (k % 16)>>
     IN  IF i % 2 = 0 THEN stem ELSE Append(stem, ChLowerS)]

(***************************************************************************)
(* bip39_utils.go                                                          *)
(***************************************************************************)
RECURSIVE bytesToBinaryStringFrom(_, _)
bytesToBinaryStringFrom(elems, i) ==
  IF i > Len(elems) THEN <<>>
  ELSE SprintfBin(8, elems[i]) \o bytesToBinaryStringFrom(elems, i + 1)

RECURSIVE bytesToBinaryStringNoPad(_)
\* bytesToBinaryString with the format "%b", which pads no byte to 8 digits
bytesToBinaryStringNoPad(slice) ==
  IF Len(slice.elems) = 0 THEN <<>>
  ELSE SprintfBin(1, slice.elems[1])
         \o bytesToBinaryStringNoPad(MkSlice(Tail(slice.elems)))

\* bytesToBinaryString(slice): the "%.8b" of each byte, in order
bytesToBinaryString(slice) == bytesToBinaryStringFrom(slice.elems, 1)

RECURSIVE binaryStringToBytesFrom(_, _, _)
\* the loop of binaryStringToBytes at index i, slice holding the bytes so far
binaryStringToBytesFrom(binStr, i, slice) ==
  IF i >= Len(binStr) THEN [slice |-> MkSlice(slice), err |-> ErrNil]
  ELSE LET byteStrBin == Sub(binStr, i, i + 8)
           p == ParseInt(byteStrBin, 2, 16)
       IN  IF p.err # ErrNil THEN [slice |-> NilSlice, err |-> p.err]
           ELSE binaryStringToBytesFrom(binStr, i + 8, Append(slice, p.val % 256))

\* binaryStringToBytes(binStr): [slice, err]
binaryStringToBytes(binStr) ==
  IF Len(binStr) % 8 # 0 THEN [slice |-> NilSlice, err |-> ErrBinaryString]
  ELSE binaryStringToBytesFrom(binStr, 0, <<>>)

\* stringBinarySearch counting the words from 1
stringBinarySearchOneBased(slice, elem) ==
  LET idx == SortSearchStrings(slice, elem)
  IN  IF idx # Len(slice) /\ At(slice, idx) = elem THEN idx + 1 ELSE -1

\* stringBinarySearch(slice, elem): the index of elem, or -1
stringBinarySearch(slice, elem) ==
  LET idx == SortSearchStrings(slice, elem)
  IN  IF idx # Len(slice) /\ At(slice, idx) = elem THEN idx ELSE -1

\* validateEntropyBitLen accepting every whole number of bytes from 128 to
\* 256 bits
validateEntropyBitLenBytes(bitLen) ==
  IF bitLen < 128 \/ bitLen > 256 \/ bitLen % 8 # 0 THEN ErrEntropyBitLen ELSE ErrNil

\* validateEntropyBitLen(bitLen)
validateEntropyBitLen(bitLen) ==
  IF bitLen \notin entropyBitLenMap THEN ErrEntropyBitLen ELSE ErrNil

\* rand.Read(buf) as the random source rnd makes it turn out: rnd.data are
\* the bytes the source would deliver; a failing source has filled only the
\* first rnd.n bytes of the buffer when it returns its error
RandRead(buf, rnd) ==
  IF rnd.ok
    THEN [buf |-> [i \in 1..Len(buf) |-> rnd.data[i]], err |-> ErrNil]
    ELSE [buf |-> [i \in 1..Len(buf) |-> IF i <= rnd.n THEN rnd.data[i] ELSE buf[i]],
          err |-> ErrRand]

\* GenerateEntropy(bitLen): [entropy, err], and reads, the number of calls
\* of rand.Read it made
GenerateEntropy(bitLen, rnd) ==
  LET err == validateEntropyBitLen(bitLen)
  IN  IF err # ErrNil THEN [entropy |-> NilSlice, err |-> err, reads |-> 0]
      ELSE LET entropy == [i \in 1..(bitLen \div 8) |-> 0]
               r == RandRead(entropy, rnd)
           IN  [entropy |-> MkSlice(r.buf), err |-> r.err, reads |-> 1]

(***************************************************************************)
(* bip39_mnemonic.go                                                       *)
(***************************************************************************)
\* validateWordsNum accepting every number from 12 to 24
validateWordsNumRange(wordsNum) ==
  IF wordsNum < 12 \/ wordsNum > 24 THEN ErrWordsNum ELSE ErrNil

\* validateWordsNum(wordsNum)
validateWordsNum(wordsNum) ==
  IF wordsNum \notin wordsNumMap THEN ErrWordsNum ELSE ErrNil

\* entropyChecksumBinStr taking one checksum bit for every 8 bytes
entropyChecksumBinStrShort(slice) ==
  LET hash == Sum256(slice.elems)
      hashStr == bytesToBinaryString(MkSlice(hash))
      chksumBitLen == Len(slice.elems) \div 8
  IN  Sub(hashStr, 0, chksumBitLen)

\* entropyChecksumBinStr(slice): the leading len(slice)/4 bits of the digest
entropyChecksumBinStr(slice) ==
  LET hash == Sum256(slice.elems)
      hashStr == bytesToBinaryString(MkSlice(hash))
      chksumBitLen == Len(slice.elems) \div 4
  IN  Sub(hashStr, 0, chksumBitLen)

RECURSIVE getBinaryStringsFromNoPad(_, _, _)
\* the loop of getBinaryStrings with the format "%b", which pads no index
\* to 11 digits
getBinaryStringsFromNoPad(wordsList, i, strBuf) ==
  IF i > Len(wordsList) THEN [str |-> strBuf, err |-> ErrNil]
  ELSE LET wordIdx == stringBinarySearch(wordsListEn, wordsList[i])
       IN  IF wordIdx = -1 THEN [str |-> <<>>, err |-> ErrInvalidWord]
           ELSE getBinaryStringsFromNoPad(wordsList, i + 1,
                                          strBuf \o SprintfBin(1, wordIdx))

RECURSIVE getBinaryStringsFrom(_, _, _)
\* the loop of getBinaryStrings over wordsList from word i on, strBuf being
\* the buffer so far: [str, err]
getBinaryStringsFrom(wordsList, i, strBuf) ==
  IF i > Len(wordsList) THEN [str |-> strBuf, err |-> ErrNil]
  ELSE LET wordIdx == stringBinarySearch(wordsListEn, wordsList[i])
       IN  IF wordIdx = -1 THEN [str |-> <<>>, err |-> ErrInvalidWord]
           ELSE getBinaryStringsFrom(wordsList, i + 1,
                                     strBuf \o SprintfBin(wordBitLen, wordIdx))

\* mnemonic.getBinaryStrings(): [entropyBinStr, chksumBinStr, err]
getBinaryStrings(mnemonic) ==
  LET wordsList == StringsSplit(mnemonic.Words, ChSpace)
      err == validateWordsNum(Len(wordsList))
  IN  IF err # ErrNil
        THEN [entropyBinStr |-> <<>>, chksumBinStr |-> <<>>, err |-> err]
        ELSE LET b == getBinaryStringsFrom(wordsList, 1, <<>>)
                 mnemonicBinStr == b.str
                 chksumLen == Len(mnemonicBinStr) \div 33
                 chksumIdx == Len(mnemonicBinStr) - chksumLen
             IN  IF b.err # ErrNil
                   THEN [entropyBinStr |-> <<>>, chksumBinStr |-> <<>>, err |-> b.err]
                   ELSE [entropyBinStr |-> Sub(mnemonicBinStr, 0, chksumIdx),
                         chksumBinStr |-> Sub(mnemonicBinStr, chksumIdx,
                                              Len(mnemonicBinStr)),
                         err |-> ErrNil]

\* MnemonicFromEntropy without the validation of the length
MnemonicFromEntropyUnchecked(entropy) ==
  LET entropyBinStr == bytesToBinaryString(entropy)
      chksumBinStr == entropyChecksumBinStr(entropy)
      mnemonicBinStr == entropyBinStr \o chksumBinStr
      mnemonicLen == Len(mnemonicBinStr) \div wordBitLen
      mnemonic ==
        [i \in 1..mnemonicLen |->
           At(wordsListEn,
              ParseInt(Sub(mnemonicBinStr, (i - 1) * wordBitLen, i * wordBitLen),
                       2, 16).val)]
  IN  [mnemonic |-> MkMnemonic(StringsJoin(mnemonic, ChSpace)), err |-> ErrNil]

\* MnemonicFromEntropy with the checksum before the entropy
MnemonicFromEntropyChecksumFirst(entropy) ==
  LET err == validateEntropyBitLen(Len(entropy.elems) * 8)
  IN  IF err # ErrNil THEN [mnemonic |-> NilMnemonic, err |-> err]
      ELSE LET mnemonicBinStr == entropyChecksumBinStr(entropy)
                                   \o bytesToBinaryString(entropy)
               mnemonicLen == Len(mnemonicBinStr) \div wordBitLen
               mnemonic ==
                 [i \in 1..mnemonicLen |->
                    At(wordsListEn,
                       ParseInt(Sub(mnemonicBinStr, (i - 1) * wordBitLen,
                                    i * wordBitLen), 2, 16).val)]
           IN  [mnemonic |-> MkMnemonic(StringsJoin(mnemonic, ChSpace)),
                err |-> ErrNil]

\* MnemonicFromEntropy(entropy): [mnemonic, err]
MnemonicFromEntropy(entropy) ==
  LET err == validateEntropyBitLen(Len(entropy.elems) * 8)
  IN  IF err # ErrNil THEN [mnemonic |-> NilMnemonic, err |-> err]
      ELSE LET entropyBinStr == bytesToBinaryString(entropy)
               chksumBinStr == entropyChecksumBinStr(entropy)
               mnemonicBinStr == entropyBinStr \o chksumBinStr
               mnemonicLen == Len(mnemonicBinStr) \div wordBitLen
               mnemonic ==
                 [i \in 1..mnemonicLen |->
                    LET wordStrBin == Sub(mnemonicBinStr, (i - 1) * wordBitLen,
                                          i * wordBitLen)
                        wordIdx == ParseInt(wordStrBin, 2, 16).val
                    IN  At(wordsListEn, wordIdx)]
           IN  [mnemonic |-> MkMnemonic(StringsJoin(mnemonic, ChSpace)),
                err |-> ErrNil]

\* MnemonicFromString returning no mnemonic for a string that is not valid
MnemonicFromStringValidated(mnemonic) ==
  IF getBinaryStrings(MkMnemonic(mnemonic)).err = ErrNil
    THEN MkMnemonic(mnemonic) ELSE NilMnemonic

\* MnemonicFromString(mnemonic)
MnemonicFromString(mnemonic) == MkMnemonic(mnemonic)

\* MnemonicFromWordsNum with one bit of checksum for every 4 words
MnemonicFromWordsNumQuarter(wordsNum, rnd) ==
  LET err == validateWordsNum(wordsNum)
  IN  IF err # ErrNil THEN [mnemonic |-> NilMnemonic, err |-> err, reads |-> 0]
      ELSE LET entropyBitLen == (wordsNum * 11) - (wordsNum \div 4)
               g == GenerateEntropy(entropyBitLen, rnd)
               r == MnemonicFromEntropy(g.entropy)
           IN  [mnemonic |-> r.mnemonic, err |-> r.err, reads |-> g.reads]

\* MnemonicFromWordsNum(wordsNum): [mnemonic, err], and reads, the number of
\* calls of rand.Read it made
MnemonicFromWordsNum(wordsNum, rnd) ==
  LET err == validateWordsNum(wordsNum)
  IN  IF err # ErrNil THEN [mnemonic |-> NilMnemonic, err |-> err, reads |-> 0]
      ELSE LET entropyBitLen == (wordsNum * 11) - (wordsNum \div 3)
               g == GenerateEntropy(entropyBitLen, rnd)
               r == MnemonicFromEntropy(g.entropy)
           IN  [mnemonic |-> r.mnemonic, err |-> r.err, reads |-> g.reads]

\* ToEntropy comparing the lengths of the checksums only
ToEntropyChecksumLength(mnemonic) ==
  LET b == getBinaryStrings(mnemonic)
  IN  IF b.err # ErrNil THEN [entropy |-> NilSlice, err |-> b.err]
      ELSE LET entropy == binaryStringToBytes(b.entropyBinStr).slice
               chksumComp == entropyChecksumBinStr(entropy)
           IN  IF Len(chksumComp) # Len(b.chksumBinStr)
                 THEN [entropy |-> NilSlice, err |-> ErrChecksum]
                 ELSE [entropy |-> entropy, err |-> ErrNil]

\* ToEntropy without the comparison of the checksums
ToEntropyNoChecksum(mnemonic) ==
  LET b == getBinaryStrings(mnemonic)
  IN  IF b.err # ErrNil THEN [entropy |-> NilSlice, err |-> b.err]
      ELSE [entropy |-> binaryStringToBytes(b.entropyBinStr).slice, err |-> ErrNil]

\* ToEntropy returning the decoded entropy along with ErrChecksum
ToEntropyPartial(mnemonic) ==
  LET b == getBinaryStrings(mnemonic)
  IN  IF b.err # ErrNil THEN [entropy |-> NilSlice, err |-> b.err]
      ELSE LET entropy == binaryStringToBytes(b.entropyBinStr).slice
               chksumComp == entropyChecksumBinStr(entropy)
           IN  IF chksumComp # b.chksumBinStr
                 THEN [entropy |-> entropy, err |-> ErrChecksum]
                 ELSE [entropy |-> entropy, err |-> ErrNil]

\* mnemonic.ToEntropy(): [entropy, err]
ToEntropy(mnemonic) ==
  LET b == getBinaryStrings(mnemonic)
  IN  IF b.err # ErrNil THEN [entropy |-> NilSlice, err |-> b.err]
      ELSE LET entropy == binaryStringToBytes(b.entropyBinStr).slice
               chksumComp == entropyChecksumBinStr(entropy)
           IN  IF chksumComp # b.chksumBinStr
                 THEN [entropy |-> NilSlice, err |-> ErrChecksum]
                 ELSE [entropy |-> entropy, err |-> ErrNil]

\* Validate without the comparison of the checksums
ValidateNoChecksum(mnemonic) == getBinaryStrings(mnemonic).err

\* mnemonic.Validate(): the error
Validate(mnemonic) ==
  LET b == getBinaryStrings(mnemonic)
  IN  IF b.err # ErrNil THEN b.err
      ELSE LET entropy == binaryStringToBytes(b.entropyBinStr).slice
               chksumComp == entropyChecksumBinStr(entropy)
           IN  IF chksumComp # b.chksumBinStr THEN ErrChecksum ELSE ErrNil

\* mnemonic.IsValid()
IsValid(mnemonic) == Validate(mnemonic) = ErrNil

\* mnemonic.GenerateSeed(passphrase): [seed, err]
GenerateSeed(mnemonic, passphrase) ==
  LET err == Validate(mnemonic)
  IN  IF err # ErrNil THEN [seed |-> NilSlice, err |-> err]
      ELSE LET salt == seedSaltMod \o passphrase
           IN  [seed |-> MkSlice(Pbkdf2Key(mnemonic.Words, salt, seedPbkdf2Round,
                                           seedPbkdf2KeyLen)),
                err |-> ErrNil]

\* The functions assign neither the Words of a Mnemonic they are given nor
\* a package variable: they only read them.  StoreWords is the Words of the
\* receiver after a call of op, StoreGlobals the package's variables g
\* after it; an index expression on a Go map, as in validateWordsNum and
\* validateEntropyBitLen, adds no key to the map.

\* as if a call emptied the Words of its receiver
StoreWordsCleared(op, words) == <<>>

StoreWords(op, words) == words

\* as if the lookup of a missing length added it to entropyBitLenMap
StoreGlobalsInserting(op, g) ==
  IF op = "MnemonicFromEntropy"
    THEN [g EXCEPT !.entropyBitLenMap = @ \cup {0}] ELSE g

StoreGlobals(op, g) == g

(***************************************************************************)
(* The callers: what they hold and the calls they make                     *)
(***************************************************************************)
VARIABLES
  src,           \* [kind, arg, rndOk, reads, str]: the constructor called, its
                 \* argument, and what the random source did
  entropy,       \* the entropy the caller gave or GenerateEntropy returned
  genErr,        \* the error GenerateEntropy returned
  mnemonic,      \* the *Mnemonic the caller holds
  mnErr,         \* the error its constructor returned
  validateRes,   \* [called, err] of mnemonic.Validate()
  isValidRes,    \* [called, ok] of mnemonic.IsValid()
  toEntropyRes,  \* [called, entropy, err] of mnemonic.ToEntropy()
  seedRes,       \* [called, passphrase, seed, err] of mnemonic.GenerateSeed()
  subst,         \* [done, from, to]: the caller replaced the last word
  bits,          \* [op, bytes, str, err, back]: calls of the bit-string codec
  callers,       \* the calls of concurrent callers: [pc, op, obj, arg, words, result]
  objs,          \* the Mnemonic values the concurrent callers share
  globals        \* the package's variables: the two maps and the words list

vars == <<src, entropy, genErr, mnemonic, mnErr, validateRes, isValidRes,
          toEntropyRes, seedRes, subst, bits, callers, objs, globals>>

NoValidate == [called |-> FALSE, err |-> ErrNil]

NoIsValid == [called |-> FALSE, ok |-> FALSE]

NoToEntropy == [called |-> FALSE, entropy |-> NilSlice, err |-> ErrNil]

NoSeed == [called |-> FALSE, passphrase |-> <<>>, seed |-> NilSlice, err |-> ErrNil]

NoSrc == [kind |-> "none", arg |-> 0, rndOk |-> TRUE, reads |-> 0, str |-> <<>>]

NoSubst == [done |-> FALSE, from |-> 0, to |-> 0]

NoBack == [called |-> FALSE, slice |-> NilSlice, str |-> <<>>, err |-> ErrNil]

NoBits == [op |-> "none", bytes |-> NilSlice, str |-> <<>>, err |-> ErrNil,
           back |-> NoBack]

\* byte i of pattern k
PatternByte(k, i) == (k * 255 + i * k * 67) % 256

\* the byte sequences callers pass as entropy
EntropyInputs ==
  {MkSlice([i \in 1..n |-> PatternByte(k, i)]) : n \in 0..MaxEntropyLen,
                                                 k \in 0..MaxPattern}

\* what the random source may do in one call: deliver the bytes of a
\* pattern, or fail after n of them
RandomSources ==
  {[ok |-> TRUE, n |-> 0, data |-> [i \in 1..sha256Size |-> PatternByte(k, i)]] :
     k \in 0..MaxPattern}
  \cup
  {[ok |-> FALSE, n |-> n, data |-> [i \in 1..sha256Size |-> PatternByte(k, i)]] :
     n \in 0..MaxFill, k \in 0..MaxPattern}

\* tokens of the strings callers pass: two words of the list and strings
\* that are no words of it (empty, a prefix of a word, between two words,
\* upper case, after the last word)
TokenInputs ==
  {At(wordsListEn, 0), At(wordsListEn, wordsListLen - 1), <<>>,
   <<ChLowerA, ChLowerA>>, <<ChLowerA, ChLowerA, ChLowerA, ChLowerA>>,
   <<65, 65, 65>>, <<122, 122, 122>>}

\* the strings callers pass to MnemonicFromString: n tokens, all the first
\* word of the list but the first, the middle or the last one
StringInputs ==
  UNION {{StringsJoin([i \in 1..n |-> IF i = p THEN tok ELSE At(wordsListEn, 0)],
                      ChSpace) : p \in {1, (n + 1) \div 2, n}, tok \in TokenInputs} :
           n \in 1..MaxTokens}

PassphraseInputs == {[i \in 1..n |-> 83 + i] : n \in 0..MaxPass}

\* the callers that run at the same time
Callers == 1..NumCallers

\* the package's variables as the package initialises them
PackageVars ==
  [wordsNumMap |-> wordsNumMap, entropyBitLenMap |-> entropyBitLenMap,
   wordsListEn |-> wordsListEn]

\* the indexes in the list of the 12 words that MnemonicFromEntropy makes of
\* the 16 bytes of pattern 1
SharedWordIndexes == <<532, 370, 22, 1257, 234, 93, 851, 1504, 283, 426, 984, 755>>

\* the Mnemonic values the callers share: the valid one of these 12 words,
\* and 12 times the first word of the list
SharedMnemonics ==
  <<MkMnemonic(StringsJoin([i \in 1..12 |-> At(wordsListEn, SharedWordIndexes[i])],
                           ChSpace)),
    MkMnemonic(StringsJoin([i \in 1..12 |-> At(wordsListEn, 0)], ChSpace))>>

\* what a call returns: the fields its function does not return keep the
\* values they have here
NoResult == [err |-> ErrNil, ok |-> FALSE, bytes |-> NilSlice,
             mnemonic |-> NilMnemonic]

NoCall == [pc |-> "idle", op |-> "none", obj |-> 0, arg |-> <<>>, words |-> <<>>,
           result |-> NoResult]

Init ==
  /\ callers = [c \in Callers |-> NoCall]
  /\ objs = SharedMnemonics
  /\ globals = PackageVars
  /\ src = NoSrc
  /\ entropy = NilSlice
  /\ genErr = ErrNil
  /\ mnemonic = NilMnemonic
  /\ mnErr = ErrNil
  /\ validateRes = NoValidate
  /\ isValidRes = NoIsValid
  /\ toEntropyRes = NoToEntropy
  /\ seedRes = NoSeed
  /\ subst = NoSubst
  /\ bits = NoBits

\* a caller that has not yet made its first call
Fresh == src.kind = "none" /\ bits.op = "none"

NoResults ==
  /\ validateRes' = NoValidate
  /\ isValidRes' = NoIsValid
  /\ toEntropyRes' = NoToEntropy
  /\ seedRes' = NoSeed

\* a caller calls GenerateEntropy(bitLen)
CallGenerateEntropy ==
  /\ Fresh
  /\ \E bitLen \in 0..MaxBitLen, rnd \in RandomSources :
       \E r \in {GenerateEntropy(bitLen, rnd)} :
         /\ src' = [kind |-> "generated", arg |-> bitLen, rndOk |-> rnd.ok,
                    reads |-> r.reads, str |-> <<>>]
         /\ entropy' = r.entropy
         /\ genErr' = r.err
  /\ mnemonic' = NilMnemonic
  /\ mnErr' = ErrNil
  /\ NoResults
  /\ UNCHANGED <<subst, bits, callers, objs, globals>>

\* a caller calls MnemonicFromEntropy(e)
CallMnemonicFromEntropy ==
  /\ Fresh
  /\ \E e \in EntropyInputs :
       \E r \in {MnemonicFromEntropy(e)} :
         /\ src' = [kind |-> "entropy", arg |-> Len(e.elems) * 8, rndOk |-> TRUE,
                    reads |-> 0, str |-> <<>>]
         /\ entropy' = e
         /\ mnemonic' = r.mnemonic
         /\ mnErr' = r.err
  /\ genErr' = ErrNil
  /\ NoResults
  /\ UNCHANGED <<subst, bits, callers, objs, globals>>

\* a caller calls MnemonicFromWordsNum(wordsNum)
CallMnemonicFromWordsNum ==
  /\ Fresh
  /\ \E wordsNum \in 0..MaxWordsNum, rnd \in RandomSources :
       \E r \in {MnemonicFromWordsNum(wordsNum, rnd)} :
         /\ src' = [kind |-> "wordsNum", arg |-> wordsNum, rndOk |-> rnd.ok,
                    reads |-> r.reads, str |-> <<>>]
         /\ mnemonic' = r.mnemonic
         /\ mnErr' = r.err
  /\ entropy' = NilSlice
  /\ genErr' = ErrNil
  /\ NoResults
  /\ UNCHANGED <<subst, bits, callers, objs, globals>>

\* a caller calls MnemonicFromString(s)
CallMnemonicFromString ==
  /\ Fresh
  /\ \E s \in StringInputs :
       /\ src' = [kind |-> "string", arg |-> 0, rndOk |-> TRUE, reads |-> 0, str |-> s]
       /\ mnemonic' = MnemonicFromString(s)
  /\ entropy' = NilSlice
  /\ genErr' = ErrNil
  /\ mnErr' = ErrNil
  /\ NoResults
  /\ UNCHANGED <<subst, bits, callers, objs, globals>>

\* The caller then calls the methods of the mnemonic it holds, one after
\* the other as the package's tests do: Validate, IsValid, ToEntropy,
\* GenerateSeed.

\* a caller calls mnemonic.Validate()
CallValidate ==
  /\ ~mnemonic.nil
  /\ ~validateRes.called
  /\ validateRes' = [called |-> TRUE, err |-> Validate(mnemonic)]
  /\ UNCHANGED <<src, entropy, genErr, mnemonic, mnErr, isValidRes, toEntropyRes,
                 seedRes, subst, bits,
                 callers, objs, globals>>

\* a caller calls mnemonic.IsValid()
CallIsValid ==
  /\ validateRes.called
  /\ ~isValidRes.called
  /\ isValidRes' = [called |-> TRUE, ok |-> IsValid(mnemonic)]
  /\ UNCHANGED <<src, entropy, genErr, mnemonic, mnErr, validateRes, toEntropyRes,
                 seedRes, subst, bits,
                 callers, objs, globals>>

\* a caller calls mnemonic.ToEntropy()
CallToEntropy ==
  /\ isValidRes.called
  /\ ~toEntropyRes.called
  /\ \E r \in {ToEntropy(mnemonic)} :
       toEntropyRes' = [called |-> TRUE, entropy |-> r.entropy, err |-> r.err]
  /\ UNCHANGED <<src, entropy, genErr, mnemonic, mnErr, validateRes, isValidRes,
                 seedRes, subst, bits,
                 callers, objs, globals>>

\* a caller calls mnemonic.GenerateSeed(passphrase)
CallGenerateSeed ==
  /\ toEntropyRes.called
  /\ ~seedRes.called
  /\ \E passphrase \in PassphraseInputs :
       \E r \in {GenerateSeed(mnemonic, passphrase)} :
         seedRes' = [called |-> TRUE, passphrase |-> passphrase,
                     seed |-> r.seed, err |-> r.err]
  /\ UNCHANGED <<src, entropy, genErr, mnemonic, mnErr, validateRes, isValidRes,
                 toEntropyRes, subst, bits,
                 callers, objs, globals>>

Next ==
  \/ CallGenerateEntropy
  \/ CallMnemonicFromEntropy
  \/ CallMnemonicFromWordsNum
  \/ CallMnemonicFromString
  \/ CallValidate
  \/ CallIsValid
  \/ CallToEntropy
  \/ CallGenerateSeed

Spec == Init /\ [][Next]_vars

(***************************************************************************)
(* A caller that replaces the last word of a valid mnemonic                *)
(***************************************************************************)
\* the string words with its last token replaced by word
ReplaceLastWord(words, word) ==
  LET toks == StringsSplit(words, ChSpace)
  IN  StringsJoin([i \in 1..Len(toks) |-> IF i = Len(toks) THEN word ELSE toks[i]],
                  ChSpace)

\* the index in the list of the last token of words
LastWordIndex(words) ==
  LET toks == StringsSplit(words, ChSpace)
  IN  stringBinarySearch(wordsListEn, toks[Len(toks)])

\* the words a caller puts in the place of word from, of a mnemonic of n
\* words: those with the same leading bits or the next ones, and low
\* trailing n/3 bits
SubstInputs(from, n) ==
  LET cs == 2^(n \div 3)
      hi == from \div cs
      lows == IF cs < MaxLow THEN cs ELSE MaxLow
  IN  {h * cs + l : h \in {hi, (hi + 1) % (wordsListLen \div cs)},
                    l \in 0..(lows - 1)} \ {from}

\* a caller that validated a mnemonic made from entropy replaces its last
\* word by another word of the list and makes a mnemonic of the string
CallSubstituteLastWord ==
  /\ src.kind = "entropy"
  /\ ~subst.done
  /\ validateRes.called
  /\ validateRes.err = ErrNil
  /\ ~isValidRes.called
  /\ \E from \in {LastWordIndex(mnemonic.Words)} :
       \E to \in SubstInputs(from, Len(StringsSplit(mnemonic.Words, ChSpace))) :
         /\ subst' = [done |-> TRUE, from |-> from, to |-> to]
         /\ mnemonic' = MnemonicFromString(
                           ReplaceLastWord(mnemonic.Words, At(wordsListEn, to)))
  /\ validateRes' = NoValidate
  /\ UNCHANGED <<src, entropy, genErr, mnErr, isValidRes, toEntropyRes, seedRes,
                 bits,
                 callers, objs, globals>>

NextSubst ==
  \/ CallMnemonicFromEntropy
  \/ CallValidate
  \/ CallSubstituteLastWord

SpecSubst == Init /\ [][NextSubst]_vars

\* A caller that decodes what it validated: mnemonics made from entropy,
\* from strings, and by replacing the last word of a valid mnemonic.
NextInverse ==
  \/ CallMnemonicFromEntropy
  \/ CallMnemonicFromString
  \/ CallValidate
  \/ CallSubstituteLastWord
  \/ CallIsValid
  \/ CallToEntropy

SpecInverse == Init /\ [][NextInverse]_vars

(***************************************************************************)
(* Callers of the bit-string codec                                         *)
(***************************************************************************)
\* the byte slices given to bytesToBinaryString: nil, and up to MaxBytes
\* bytes starting at any byte value
ByteInputs ==
  {NilSlice} \cup
  {MkSlice([i \in 1..n |-> (b + (i - 1) * k * 67) % 256]) :
     n \in 0..MaxBytes, b \in 0..255, k \in 0..MaxPattern}

\* characters that are no binary digits
BadChars == {ChPlus, ChMinus, ChSpace, ChLowerA, Ch0 + 2, 95}

\* the strings given to binaryStringToBytes: the digits of a byte value,
\* least significant first and repeated, cut at any length; and such
\* strings with one character that is no binary digit
BinStrInputs ==
  {[i \in 1..n |-> Ch0 + ((v \div 2^((i - 1) % 8)) % 2)] :
     n \in 0..MaxStrLen, v \in 0..255}
  \cup
  {[i \in 1..n |-> IF i = p THEN c ELSE Ch0 + (k % 2)] :
     n \in 1..MaxStrLen, p \in 1..MaxStrLen, c \in BadChars, k \in 0..MaxPattern}

\* a caller calls bytesToBinaryString, on bytes of its own or on the
\* bytes binaryStringToBytes returned
CallBytesToBinaryString ==
  /\ \/ /\ Fresh
        /\ \E b \in ByteInputs :
             bits' = [NoBits EXCEPT !.op = "b2s", !.bytes = b,
                                    !.str = bytesToBinaryString(b)]
     \/ /\ bits.op = "s2b"
        /\ bits' = [bits EXCEPT !.op = "s2b2s",
                                !.back = [NoBack EXCEPT
                                            !.called = TRUE,
                                            !.str = bytesToBinaryString(bits.bytes)]]
  /\ UNCHANGED <<src, entropy, genErr, mnemonic, mnErr, validateRes, isValidRes,
                 toEntropyRes, seedRes, subst,
                 callers, objs, globals>>

\* a caller calls binaryStringToBytes, on a string of its own or on the
\* string bytesToBinaryString returned
CallBinaryStringToBytes ==
  /\ \/ /\ Fresh
        /\ \E s \in BinStrInputs :
             \E r \in {binaryStringToBytes(s)} :
               bits' = [NoBits EXCEPT !.op = "s2b", !.str = s, !.bytes = r.slice,
                                      !.err = r.err]
     \/ /\ bits.op = "b2s"
        /\ \E r \in {binaryStringToBytes(bits.str)} :
             bits' = [bits EXCEPT !.op = "b2s2b",
                                  !.back = [NoBack EXCEPT !.called = TRUE,
                                                          !.slice = r.slice,
                                                          !.err = r.err]]
  /\ UNCHANGED <<src, entropy, genErr, mnemonic, mnErr, validateRes, isValidRes,
                 toEntropyRes, seedRes, subst,
                 callers, objs, globals>>

NextBits ==
  \/ CallBytesToBinaryString
  \/ CallBinaryStringToBytes

SpecBits == Init /\ [][NextBits]_vars

(***************************************************************************)
(* Callers that run at the same time on shared Mnemonic values             *)
(***************************************************************************)
\* the calls a caller may make: a method on a shared Mnemonic, or a
\* constructor (obj is 0 then) on an entropy or a string of its own
Calls ==
  {[op |-> o, obj |-> k, arg |-> <<>>] :
     o \in {"Validate", "ToEntropy"}, k \in DOMAIN SharedMnemonics}
  \cup
  {[op |-> "IsValid", obj |-> 1, arg |-> <<>>]}
  \cup
  {[op |-> "GenerateSeed", obj |-> 1, arg |-> p] : p \in {<<>>, <<84>>}}
  \cup
  {[op |-> "MnemonicFromEntropy", obj |-> 0, arg |-> [i \in 1..n |-> PatternByte(1, i)]] :
     n \in {15, 16}}
  \cup
  {[op |-> "MnemonicFromString", obj |-> 0, arg |-> SharedMnemonics[1].Words]}

\* what the function op returns when it runs alone on the mnemonic m and
\* the argument arg
RunAlone(op, m, arg) ==
  CASE op = "Validate" -> [NoResult EXCEPT !.err = Validate(m)]
    [] op = "IsValid" -> [NoResult EXCEPT !.ok = IsValid(m)]
    [] op = "ToEntropy" ->
         CHOOSE res \in {[NoResult EXCEPT !.bytes = r.entropy, !.err = r.err] :
                           r \in {ToEntropy(m)}} : TRUE
    [] op = "GenerateSeed" ->
         CHOOSE res \in {[NoResult EXCEPT !.bytes = r.seed, !.err = r.err] :
                           r \in {GenerateSeed(m, arg)}} : TRUE
    [] op = "MnemonicFromEntropy" ->
         CHOOSE res \in {[NoResult EXCEPT !.mnemonic = r.mnemonic, !.err = r.err] :
                           r \in {MnemonicFromEntropy(MkSlice(arg))}} : TRUE
    [] op = "MnemonicFromString" ->
         [NoResult EXCEPT !.mnemonic = MnemonicFromString(arg)]

\* caller c is in a call of op that has not run yet
Running(c, op) == callers[c].pc = "called" /\ callers[c].op = op

\* caller c's call returns result; the call has stored what its function
\* stores
Return(c, result) ==
  /\ callers' = [callers EXCEPT ![c].pc = "done", ![c].result = result]
  /\ objs' = IF callers[c].obj = 0 THEN objs
             ELSE [objs EXCEPT ![callers[c].obj].Words =
                                  StoreWords(callers[c].op, @)]
  /\ globals' = StoreGlobals(callers[c].op, globals)
  /\ UNCHANGED <<src, entropy, genErr, mnemonic, mnErr, validateRes, isValidRes,
                 toEntropyRes, seedRes, subst, bits>>

\* a caller starts a call; words are the Words of the receiver at this time
ConcCall ==
  \E c \in Callers, call \in Calls :
    /\ callers[c].pc = "idle"
    /\ callers' = [callers EXCEPT ![c] =
                     [pc |-> "called", op |-> call.op, obj |-> call.obj,
                      arg |-> call.arg,
                      words |-> IF call.obj = 0 THEN <<>> ELSE objs[call.obj].Words,
                      result |-> NoResult]]
    /\ UNCHANGED <<src, entropy, genErr, mnemonic, mnErr, validateRes, isValidRes,
                   toEntropyRes, seedRes, subst, bits, objs, globals>>

ConcValidate ==
  \E c \in Callers :
    /\ Running(c, "Validate")
    /\ \E err \in {Validate(objs[callers[c].obj])} :
         Return(c, [NoResult EXCEPT !.err = err])

ConcIsValid ==
  \E c \in Callers :
    /\ Running(c, "IsValid")
    /\ \E ok \in {IsValid(objs[callers[c].obj])} :
         Return(c, [NoResult EXCEPT !.ok = ok])

ConcToEntropy ==
  \E c \in Callers :
    /\ Running(c, "ToEntropy")
    /\ \E r \in {ToEntropy(objs[callers[c].obj])} :
         Return(c, [NoResult EXCEPT !.bytes = r.entropy, !.err = r.err])

\* GenerateSeed reads the Words twice: when it validates them, and when it
\* derives the key from them.  This is its call of Validate.
ConcGenerateSeedValidate ==
  \E c \in Callers :
    /\ Running(c, "GenerateSeed")
    /\ \E err \in {Validate(objs[callers[c].obj])} :
         IF err # ErrNil
           THEN Return(c, [NoResult EXCEPT !.err = err])
           ELSE /\ callers' = [callers EXCEPT ![c].pc = "validated"]
                /\ UNCHANGED <<src, entropy, genErr, mnemonic, mnErr, validateRes,
                               isValidRes, toEntropyRes, seedRes, subst, bits, objs,
                               globals>>

\* and this its call of pbkdf2.Key
ConcGenerateSeedKey ==
  \E c \in Callers :
    /\ callers[c].pc = "validated"
    /\ \E seed \in {Pbkdf2Key(objs[callers[c].obj].Words,
                               seedSaltMod \o callers[c].arg, seedPbkdf2Round,
                               seedPbkdf2KeyLen)} :
         Return(c, [NoResult EXCEPT !.bytes = MkSlice(seed)])

ConcMnemonicFromEntropy ==
  \E c \in Callers :
    /\ Running(c, "MnemonicFromEntropy")
    /\ \E r \in {MnemonicFromEntropy(MkSlice(callers[c].arg))} :
         Return(c, [NoResult EXCEPT !.mnemonic = r.mnemonic, !.err = r.err])

ConcMnemonicFromString ==
  \E c \in Callers :
    /\ Running(c, "MnemonicFromString")
    /\ Return(c, [NoResult EXCEPT !.mnemonic = MnemonicFromString(callers[c].arg)])

NextConc ==
  \/ ConcCall
  \/ ConcValidate
  \/ ConcIsValid
  \/ ConcToEntropy
  \/ ConcGenerateSeedValidate
  \/ ConcGenerateSeedKey
  \/ ConcMnemonicFromEntropy
  \/ ConcMnemonicFromString

SpecConc == Init /\ [][NextConc]_vars

(***************************************************************************)
(* Properties                                                              *)
(***************************************************************************)
\* The tokens of a string as the specification counts them, without the
\* code's splitting: one more than there are spaces, each the characters
\* between two neighbouring spaces (or an end of the string).
SpacePositions(s) == {i \in 1..Len(s) : s[i] = ChSpace}

TokenCount(s) == Cardinality(SpacePositions(s)) + 1

TokenSet(s) ==
  LET ends == SpacePositions(s) \cup {0, Len(s) + 1}
  IN  {SubSeq(s, a + 1, b - 1) :
         <<a, b>> \in {ab \in ends \X ends :
                         /\ ab[1] < ab[2]
                         /\ \A m \in ends : ~(ab[1] < m /\ m < ab[2])}}

WordSet == {wordsListEn[i] : i \in 1..wordsListLen}

ValidEntropyLens == {16, 20, 24, 28, 32}

DecodeErrors == {ErrNil, ErrWordsNum, ErrInvalidWord, ErrChecksum}

\* C1: round trip.  A mnemonic made by MnemonicFromEntropy from entropy of
\* 16, 20, 24, 28 or 32 bytes is made without error, and ToEntropy on it
\* returns that entropy and no error.
C1_RoundTrip ==
  (src.kind = "entropy" /\ Len(entropy.elems) \in ValidEntropyLens) =>
    /\ mnErr = ErrNil
    /\ ~mnemonic.nil
    /\ toEntropyRes.called =>
         /\ toEntropyRes.err = ErrNil
         /\ ~toEntropyRes.entropy.nil
         /\ toEntropyRes.entropy.elems = entropy.elems

C1_Witness ==
  /\ src.kind = "entropy"
  /\ Len(entropy.elems) = 32
  /\ entropy.elems[1] # entropy.elems[2]
  /\ toEntropyRes.called
  /\ toEntropyRes.err = ErrNil
  /\ toEntropyRes.entropy.elems = entropy.elems

\* what C2 says of one decode error err for the mnemonic string s
RejectionOrder(s, err) ==
  /\ TokenCount(s) \notin wordsNumMap => err = ErrWordsNum
  /\ (TokenCount(s) \in wordsNumMap /\ ~(TokenSet(s) \subseteq WordSet))
       => err = ErrInvalidWord
  /\ err = ErrChecksum
       => (TokenCount(s) \in wordsNumMap /\ TokenSet(s) \subseteq WordSet)

\* C2: rejection ordering.  Validate and ToEntropy return ErrWordsNum when
\* the number of tokens is none of 12, 15, 18, 21, 24, whatever the tokens
\* are; ErrInvalidWord when the number is one of these and a token is no
\* word of the list; ErrChecksum only when the number is one of these and
\* every token is a word of the list.
C2_RejectionOrdering ==
  /\ validateRes.called => RejectionOrder(mnemonic.Words, validateRes.err)
  /\ toEntropyRes.called => RejectionOrder(mnemonic.Words, toEntropyRes.err)

C2_Witness ==
  /\ src.kind = "string"
  /\ toEntropyRes.called
  /\ TokenCount(mnemonic.Words) = 12
  /\ ~(TokenSet(mnemonic.Words) \subseteq WordSet)
  /\ validateRes.err = ErrInvalidWord
  /\ toEntropyRes.err = ErrInvalidWord

\* the entropy of a mnemonic made from entropy e after its last word was
\* replaced by word to, n being the number of words: the last 11 - n/3
\* bits of e are the leading bits of to
SubstEntropy(e, to, n) ==
  LET keep == 2^(wordBitLen - (n \div 3))
  IN  [i \in 1..Len(e) |->
         IF i = Len(e) THEN (e[i] - (e[i] % keep)) + (to \div 2^(n \div 3))
         ELSE e[i]]

\* the leading n/3 bits of the digest of e, as a number
ChecksumValue(e, n) == Sum256(e)[1] \div 2^(8 - (n \div 3))

\* C3: checksum sensitivity.  After the last word of a valid mnemonic of n
\* words was replaced by another word of the list, Validate returns
\* ErrChecksum unless the trailing n/3 bits of the new word are the
\* checksum of the resulting entropy, and then it returns nil; it returns
\* ErrChecksum whenever the new word differs from the old one in its
\* trailing n/3 bits only.
C3_ChecksumSensitivity ==
  (subst.done /\ validateRes.called) =>
    LET n == TokenCount(mnemonic.Words)
        e == SubstEntropy(entropy.elems, subst.to, n)
    IN  /\ validateRes.err =
             IF subst.to % 2^(n \div 3) = ChecksumValue(e, n)
               THEN ErrNil ELSE ErrChecksum
        /\ subst.to \div 2^(n \div 3) = subst.from \div 2^(n \div 3)
             => validateRes.err = ErrChecksum

C3_Witness ==
  /\ subst.done
  /\ validateRes.called
  /\ subst.to # subst.from
  /\ subst.to \div 2^(TokenCount(mnemonic.Words) \div 3)
       = subst.from \div 2^(TokenCount(mnemonic.Words) \div 3)
  /\ validateRes.err = ErrChecksum

\* a replaced last word that happens to carry the right checksum validates
C3_WitnessCoincidence ==
  /\ subst.done
  /\ validateRes.called
  /\ subst.to # subst.from
  /\ validateRes.err = ErrNil

\* C4: agreement.  On one mnemonic, Validate, ToEntropy and GenerateSeed
\* return the same error, one of nil, ErrWordsNum, ErrInvalidWord and
\* ErrChecksum, and IsValid returns true exactly when it is nil.
C4_Agreement ==
  /\ validateRes.called => validateRes.err \in DecodeErrors
  /\ isValidRes.called => (isValidRes.ok <=> validateRes.err = ErrNil)
  /\ toEntropyRes.called => toEntropyRes.err = validateRes.err
  /\ seedRes.called => seedRes.err = validateRes.err

C4_Witness ==
  /\ seedRes.called
  /\ Len(seedRes.passphrase) > 0
  /\ validateRes.err = ErrChecksum
  /\ toEntropyRes.err = ErrChecksum
  /\ seedRes.err = ErrChecksum
  /\ ~isValidRes.ok

\* C5: when the random source fails during MnemonicFromWordsNum(n), n one
\* of 12, 15, 18, 21, 24, the call returns an error and no mnemonic.
C5_RandomFailurePropagated ==
  (src.kind = "wordsNum" /\ src.arg \in wordsNumMap /\ ~src.rndOk) =>
    (mnErr # ErrNil /\ mnemonic.nil)

\* C6: when the random source fails during GenerateEntropy(bitLen), bitLen
\* one of 128, 160, 192, 224, 256, the call returns the failure and a nil
\* buffer.
C6_NoBufferOnRandomFailure ==
  (src.kind = "generated" /\ src.arg \in entropyBitLenMap /\ ~src.rndOk) =>
    (genErr = ErrRand /\ entropy.nil)

\* C7: no partial results.  When ToEntropy returns an error its entropy is
\* nil, and when GenerateSeed returns an error its seed is nil.
C7_NoPartialResults ==
  /\ (toEntropyRes.called /\ toEntropyRes.err # ErrNil) => toEntropyRes.entropy.nil
  /\ (seedRes.called /\ seedRes.err # ErrNil) => seedRes.seed.nil

C7_Witness ==
  /\ seedRes.called
  /\ TokenCount(mnemonic.Words) \in wordsNumMap
  /\ toEntropyRes.err = ErrChecksum
  /\ toEntropyRes.entropy.nil
  /\ seedRes.err = ErrChecksum
  /\ seedRes.seed.nil

\* whether s is a string of binary digits whose length is a multiple of 8
IsBitString(s) == Len(s) % 8 = 0 /\ \A i \in 1..Len(s) : s[i] \in {Ch0, Ch1}

\* C8: binaryStringToBytes returns a nil slice and an error for every
\* string whose length is no multiple of 8 or that has a character other
\* than '0' and '1', and converts only strings of '0' and '1' whose length
\* is a multiple of 8.
C8_RejectsInvalidBitStrings ==
  bits.op = "s2b" =>
    /\ ~IsBitString(bits.str) => (bits.bytes.nil /\ bits.err # ErrNil)
    /\ bits.err = ErrNil => IsBitString(bits.str)

\* C9: bit-string round trip.  bytesToBinaryString(b) has 8 characters for
\* each byte of b, the byte's digits from the most significant one, in the
\* order of the bytes; binaryStringToBytes of it returns b; and
\* bytesToBinaryString of binaryStringToBytes(s) is s for every string s of
\* '0' and '1' whose length is a multiple of 8.
C9_BitStringRoundTrip ==
  /\ bits.op \in {"b2s", "b2s2b"} =>
       /\ Len(bits.str) = 8 * Len(bits.bytes.elems)
       /\ \A i \in 1..Len(bits.bytes.elems) : \A j \in 0..7 :
            bits.str[8 * (i - 1) + j + 1]
              = Ch0 + ((bits.bytes.elems[i] \div 2^(7 - j)) % 2)
  /\ bits.op = "b2s2b" =>
       /\ bits.back.err = ErrNil
       /\ ~bits.back.slice.nil
       /\ bits.back.slice.elems = bits.bytes.elems
  /\ (bits.op = "s2b" /\ IsBitString(bits.str)) =>
       /\ bits.err = ErrNil
       /\ Len(bits.bytes.elems) * 8 = Len(bits.str)
  /\ (bits.op = "s2b2s" /\ IsBitString(bits.str)) => bits.back.str = bits.str

C9_Witness ==
  /\ bits.op = "b2s2b"
  /\ Len(bits.bytes.elems) = 2
  /\ bits.bytes.elems[1] = 1
  /\ bits.bytes.elems[2] = 68
  /\ bits.back.err = ErrNil
  /\ bits.back.slice.elems = bits.bytes.elems

\* the other direction of the round trip
C9_WitnessFromString ==
  /\ bits.op = "s2b2s"
  /\ Len(bits.str) = 16
  /\ bits.str[1] = Ch1
  /\ bits.str[2] = Ch0
  /\ bits.back.str = bits.str

\* C10: word-count law.  The mnemonic MnemonicFromEntropy makes from
\* entropy of bits bits, bits one of 128, 160, 192, 224, 256, has exactly
\* (bits + bits/32)/11 words, the division leaving no remainder and the
\* number being 12, 15, 18, 21 or 24 in this order.
C10_WordCountLaw ==
  (src.kind = "entropy" /\ src.arg \in entropyBitLenMap) =>
    /\ ~mnemonic.nil
    /\ (src.arg + src.arg \div 32) % wordBitLen = 0
    /\ TokenCount(mnemonic.Words) = (src.arg + src.arg \div 32) \div wordBitLen
    /\ TokenCount(mnemonic.Words) = 12 + 3 * ((src.arg - 128) \div 32)
    /\ TokenCount(mnemonic.Words) \in wordsNumMap
    /\ TokenSet(mnemonic.Words) \subseteq WordSet

C10_Witness ==
  /\ src.kind = "entropy"
  /\ src.arg = 224
  /\ entropy.elems[1] # 0
  /\ TokenCount(mnemonic.Words) = 21

\* C11: GenerateEntropy(bitLen) returns a nil buffer and ErrEntropyBitLen,
\* and does not read the random source, for every bitLen that is none of
\* 128, 160, 192, 224, 256; for each of these and a working random source
\* it returns a buffer of bitLen/8 bytes and no error.
C11_GenerateEntropyLengths ==
  src.kind = "generated" =>
    /\ src.arg \notin entropyBitLenMap =>
         /\ entropy.nil
         /\ genErr = ErrEntropyBitLen
         /\ src.reads = 0
    /\ (src.arg \in entropyBitLenMap /\ src.rndOk) =>
         /\ ~entropy.nil
         /\ Len(entropy.elems) * 8 = src.arg
         /\ genErr = ErrNil

C11_Witness ==
  /\ src.kind = "generated"
  /\ src.arg = 192
  /\ src.rndOk
  /\ Len(entropy.elems) = 24
  /\ entropy.elems[2] # 0
  /\ genErr = ErrNil

\* a length that is a whole number of bytes but not accepted, with a random
\* source that would fail if it were read
C11_WitnessRejected ==
  /\ src.kind = "generated"
  /\ src.arg = 136
  /\ ~src.rndOk
  /\ entropy.nil
  /\ genErr = ErrEntropyBitLen

\* C12: MnemonicFromEntropy(e) returns a nil mnemonic and ErrEntropyBitLen
\* for every e, the empty one included, whose length in bits is none of
\* 128, 160, 192, 224, 256.
C12_InvalidEntropyRejected ==
  (src.kind = "entropy" /\ Len(entropy.elems) * 8 \notin entropyBitLenMap) =>
    (mnemonic.nil /\ mnErr = ErrEntropyBitLen)

C12_Witness ==
  /\ src.kind = "entropy"
  /\ ~entropy.nil
  /\ Len(entropy.elems) = 0
  /\ mnemonic.nil
  /\ mnErr = ErrEntropyBitLen

\* a length between two accepted ones
C12_WitnessBetween ==
  /\ src.kind = "entropy"
  /\ Len(entropy.elems) = 17
  /\ mnemonic.nil
  /\ mnErr = ErrEntropyBitLen

\* C13: MnemonicFromWordsNum(n) returns a nil mnemonic and ErrWordsNum for
\* every n that is none of 12, 15, 18, 21, 24; for each of these and a
\* working random source it returns no error and a mnemonic of n words of
\* the list, and n*11 - n/3 is one of 128, 160, 192, 224, 256.
C13_MnemonicFromWordsNum ==
  src.kind = "wordsNum" =>
    /\ src.arg \notin wordsNumMap =>
         /\ mnemonic.nil
         /\ mnErr = ErrWordsNum
         /\ src.reads = 0
    /\ src.arg \in wordsNumMap =>
         (src.arg * 11) - (src.arg \div 3) \in entropyBitLenMap
    /\ (src.arg \in wordsNumMap /\ src.rndOk) =>
         /\ mnErr = ErrNil
         /\ ~mnemonic.nil
         /\ TokenCount(mnemonic.Words) = src.arg
         /\ TokenSet(mnemonic.Words) \subseteq WordSet

C13_Witness ==
  /\ src.kind = "wordsNum"
  /\ src.arg = 21
  /\ src.rndOk
  /\ mnErr = ErrNil
  /\ TokenCount(mnemonic.Words) = 21
  /\ Cardinality(TokenSet(mnemonic.Words)) > 1

\* C15: MnemonicFromString(s) returns, for every string s, a mnemonic
\* whose Words is s, and no failure; whether s is valid shows only in what
\* Validate, ToEntropy and GenerateSeed return later.
C15_FromStringUnvalidated ==
  src.kind = "string" =>
    /\ ~mnemonic.nil
    /\ mnemonic.Words = src.str
    /\ mnErr = ErrNil

C15_Witness ==
  /\ src.kind = "string"
  /\ ~mnemonic.nil
  /\ mnemonic.Words = src.str
  /\ Len(src.str) > 0
  /\ src.str[Len(src.str)] = ChSpace
  /\ seedRes.called
  /\ validateRes.err = ErrWordsNum
  /\ toEntropyRes.err = ErrWordsNum
  /\ seedRes.err = ErrWordsNum

\* bit j, counted from 0, of the bytes of e followed by the bytes of the
\* digest of e, each byte from its most significant bit
CombinedBit(e, j) ==
  LET data == IF j < 8 * Len(e) THEN e ELSE Sum256(e)
      k == IF j < 8 * Len(e) THEN j ELSE j - 8 * Len(e)
  IN  (data[(k \div 8) + 1] \div 2^(7 - (k % 8))) % 2

RECURSIVE GroupValue(_, _, _)
\* the big-endian value of the n bits of CombinedBit(e, _) from bit lo on
GroupValue(e, lo, n) ==
  IF n = 0 THEN 0
  ELSE 2 * GroupValue(e, lo, n - 1) + CombinedBit(e, lo + n - 1)

\* token i, counted from 0, of the string s: the characters between the
\* i-th and the next of the spaces and ends of s
NthToken(s, i) ==
  LET ends == SpacePositions(s) \cup {0, Len(s) + 1}
      nth(k) == CHOOSE p \in ends : Cardinality({q \in ends : q < p}) = k
  IN  SubSeq(s, nth(i) + 1, nth(i + 1) - 1)

\* C17: encode mapping.  For entropy e of 16, 20, 24, 28 or 32 bytes, word
\* i of MnemonicFromEntropy(e) is the word of the list at index v_i, the
\* big-endian value of bits 11*i .. 11*i+10 of the bits of e followed by
\* the leading len(e)/4 bits of the digest of e; every v_i is in 0..2047,
\* and the words are joined by single spaces in this order.
C17_EncodeMapping ==
  (src.kind = "entropy" /\ Len(entropy.elems) \in ValidEntropyLens) =>
    LET e == entropy.elems
        n == (8 * Len(e) + Len(e) \div 4) \div wordBitLen
    IN  /\ ~mnemonic.nil
        /\ TokenCount(mnemonic.Words) = n
        /\ \A i \in 0..(n - 1) :
             /\ GroupValue(e, wordBitLen * i, wordBitLen) \in 0..(wordsListLen - 1)
             /\ NthToken(mnemonic.Words, i)
                  = wordsListEn[GroupValue(e, wordBitLen * i, wordBitLen) + 1]

C17_Witness ==
  /\ src.kind = "entropy"
  /\ Len(entropy.elems) = 20
  /\ entropy.elems[1] # entropy.elems[2]
  /\ TokenCount(mnemonic.Words) = 15
  /\ NthToken(mnemonic.Words, 14)
       = wordsListEn[GroupValue(entropy.elems, 154, 11) + 1]
  /\ NthToken(mnemonic.Words, 14) # NthToken(mnemonic.Words, 0)

\* whether every character of s is '0' or '1'
OnlyBinaryDigits(s) == \A i \in 1..Len(s) : s[i] \in {Ch0, Ch1}

\* what C18 says of the bit strings b that getBinaryStrings rebuilds from a
\* mnemonic of n words of the list
DecodeWellFormed(b, n) ==
  LET bytes == binaryStringToBytes(b.entropyBinStr)
  IN  /\ b.err = ErrNil
      /\ Len(b.entropyBinStr) + Len(b.chksumBinStr) = wordBitLen * n
      /\ (wordBitLen * n) \div 33 = n \div 3
      /\ Len(b.chksumBinStr) = n \div 3
      /\ Len(b.entropyBinStr) % 8 = 0
      /\ OnlyBinaryDigits(b.entropyBinStr)
      /\ OnlyBinaryDigits(b.chksumBinStr)
      /\ bytes.err = ErrNil
      /\ ~bytes.slice.nil
      /\ Len(bytes.slice.elems) * 8 = Len(b.entropyBinStr)
      \* the slice expression hashStr[:chksumBitLen] is in range
      /\ Len(bytes.slice.elems) \div 4 <= 8 * sha256Size
      /\ Len(entropyChecksumBinStr(bytes.slice)) = Len(b.chksumBinStr)

\* C18: decode meets no internal failure.  For every mnemonic string whose
\* number of tokens is 12, 15, 18, 21 or 24 and whose tokens are words of
\* the list, the rebuilt bit string has 11*N characters and is split at
\* N/3 from its end into an entropy part of '0' and '1' whose length is a
\* multiple of 8, so that binaryStringToBytes does not fail on it, and a
\* checksum as long as the recomputed one; and for every string Validate
\* and ToEntropy return nil or one of ErrWordsNum, ErrInvalidWord and
\* ErrChecksum, ToEntropy with an entropy exactly when it returns nil.
C18_DecodeNoInternalFailure ==
  /\ (validateRes.called /\ TokenCount(mnemonic.Words) \in wordsNumMap
        /\ TokenSet(mnemonic.Words) \subseteq WordSet) =>
       DecodeWellFormed(getBinaryStrings(mnemonic), TokenCount(mnemonic.Words))
  /\ validateRes.called => validateRes.err \in DecodeErrors
  /\ toEntropyRes.called =>
       /\ toEntropyRes.err \in DecodeErrors
       /\ toEntropyRes.err = ErrNil <=> ~toEntropyRes.entropy.nil
       /\ toEntropyRes.err = ErrNil =>
            Len(toEntropyRes.entropy.elems) * 8
              = wordBitLen * TokenCount(mnemonic.Words)
                  - TokenCount(mnemonic.Words) \div 3

C18_Witness ==
  /\ src.kind = "string"
  /\ toEntropyRes.called
  /\ TokenCount(mnemonic.Words) = 24
  /\ TokenSet(mnemonic.Words) \subseteq WordSet
  /\ Cardinality(TokenSet(mnemonic.Words)) = 2
  /\ toEntropyRes.err \in {ErrNil, ErrChecksum}
  /\ DecodeWellFormed(getBinaryStrings(mnemonic), 24)

\* C19: inverse round trip.  When ToEntropy returns entropy e and nil for a
\* mnemonic, MnemonicFromEntropy(e) returns no error and the Words of that
\* mnemonic; so a valid mnemonic other than the one made from an entropy
\* decodes to another entropy, and a string with an empty token (a leading,
\* trailing or doubled space) is never valid.
C19_InverseRoundTrip ==
  /\ (toEntropyRes.called /\ toEntropyRes.err = ErrNil) =>
       /\ MnemonicFromEntropy(toEntropyRes.entropy).err = ErrNil
       /\ ~MnemonicFromEntropy(toEntropyRes.entropy).mnemonic.nil
       /\ MnemonicFromEntropy(toEntropyRes.entropy).mnemonic.Words = mnemonic.Words
       /\ subst.done => toEntropyRes.entropy.elems # entropy.elems
  /\ (validateRes.called /\ <<>> \in TokenSet(mnemonic.Words)) =>
       validateRes.err \in {ErrWordsNum, ErrInvalidWord}
  /\ (toEntropyRes.called /\ <<>> \in TokenSet(mnemonic.Words)) =>
       toEntropyRes.err \in {ErrWordsNum, ErrInvalidWord}

C19_Witness ==
  /\ subst.done
  /\ subst.to # subst.from
  /\ toEntropyRes.called
  /\ toEntropyRes.err = ErrNil
  /\ toEntropyRes.entropy.elems # entropy.elems
  /\ MnemonicFromEntropy(toEntropyRes.entropy).mnemonic.Words = mnemonic.Words

\* a doubled space among 12 tokens
C19_WitnessEmptyToken ==
  /\ src.kind = "string"
  /\ toEntropyRes.called
  /\ TokenCount(mnemonic.Words) = 12
  /\ NthToken(mnemonic.Words, 5) = <<>>
  /\ validateRes.err = ErrInvalidWord
  /\ toEntropyRes.err = ErrInvalidWord

C14_WitnessEncode ==
  /\ callers[1].pc = "done"
  /\ callers[2].pc = "done"
  /\ callers[1].op = "MnemonicFromEntropy"
  /\ callers[2].op = "MnemonicFromEntropy"
  /\ Len(callers[1].arg) = 16
  /\ callers[1].arg = callers[2].arg
  /\ ~callers[1].result.mnemonic.nil
  /\ callers[1].result.mnemonic.Words = callers[2].result.mnemonic.Words
  /\ callers[1].result.mnemonic.Words = objs[1].Words

\* C16: statelessness.  However the calls of Validate, IsValid, ToEntropy,
\* GenerateSeed, MnemonicFromEntropy and MnemonicFromString of several
\* callers interleave, the words list, the two maps and the Words of every
\* Mnemonic stay as they were, and every call returns what its function
\* returns when it runs alone on the same inputs.
C16_Statelessness ==
  /\ globals = PackageVars
  /\ objs = SharedMnemonics
  /\ \A c \in Callers :
       /\ (callers[c].pc # "idle" /\ callers[c].obj # 0) =>
            callers[c].words = SharedMnemonics[callers[c].obj].Words
       /\ callers[c].pc = "done" =>
            callers[c].result
              = RunAlone(callers[c].op,
                         IF callers[c].obj = 0 THEN NilMnemonic
                         ELSE MkMnemonic(callers[c].words),
                         callers[c].arg)

\* a call of ToEntropy has returned between the two reads of the Words that
\* another caller's GenerateSeed makes on the same Mnemonic
C16_Witness ==
  /\ callers[1].pc = "done"
  /\ callers[1].op = "ToEntropy"
  /\ callers[1].obj = 1
  /\ callers[1].result.err = ErrNil
  /\ ~callers[1].result.bytes.nil
  /\ callers[2].pc = "validated"
  /\ callers[2].obj = 1
  /\ objs = SharedMnemonics

\* calls on the Mnemonic that is not valid
C16_WitnessInvalid ==
  /\ callers[1].pc = "done"
  /\ callers[1].op = "Validate"
  /\ callers[1].obj = 2
  /\ callers[1].result.err = ErrChecksum
  /\ callers[2].pc = "done"
  /\ callers[2].op = "ToEntropy"
  /\ callers[2].obj = 2
  /\ callers[2].result.err = ErrChecksum
  /\ callers[2].result.bytes.nil

=============================================================================
